---- MODULE Spec2Model ----
(***************************************************************************)
(* State-machine model of opendlv-device-gamepad.cpp: the main thread      *)
(* (argument check, device open, OD4 session, timeTrigger loop, neutral    *)
(* sends, shutdown block), the gamepadReadingThread lambda, the js_event   *)
(* decoder inside its read loop, and the device / signal environment.      *)
(*                                                                         *)
(* Pedal positions are C floats.  A float is represented by the integer    *)
(* f * 2^24 (every value the decoder can produce is a multiple of 2^-24    *)
(* in [-1, 1]); the float division and subtraction are computed with       *)
(* IEEE-754 binary32 round-to-nearest-even.                                *)
(***************************************************************************)
EXTENDS Integers, Naturals, Sequences, FiniteSets, TLC

----------------------------------------------------------------------------
(* Bounds of the model *)

\* total number of js_events the device delivers in one run
MaxEvents == 2
\* total number of delegate invocations made by timeTrigger in one run
MaxTicks == 2
\* half-width of the raw-value windows explored around MIN, 0 and MAX
Probe == 3
\* largest js_event number (axis / button index) explored
MaxNumber == 2

----------------------------------------------------------------------------
(* Program constants *)

MIN_AXES_VALUE == -32768
MAX_AXES_VALUE == 32767
JS_EVENT_BUTTON == 1
JS_EVENT_AXIS == 2
JS_EVENT_INIT == 128

\* senderStamps of the three od4.send calls
StampLeft == 0
StampRight == 10
StampSwitch == 99

\* 1.0f in units of 2^-24
One == 16777216
\* 2^23, the smallest normalised binary32 significand
MinSig == 8388608

----------------------------------------------------------------------------
(* binary32 arithmetic of lines 123-124 and 128-129 *)

RECURSIVE Pow2(_)
Pow2(k) == IF k = 0 THEN 1 ELSE 2 * Pow2(k - 1)

\* Long division n / d continued until the quotient has 24 significant
\* bits: q = floor(n * 2^s / d), r = (n * 2^s) % d.
RECURSIVE DivBits(_, _, _, _)
DivBits(q, r, s, d) ==
  IF q >= MinSig THEN [q |-> q, r |-> r, s |-> s]
  ELSE IF 2 * r >= d THEN DivBits(2 * q + 1, 2 * r - d, s + 1, d)
       ELSE DivBits(2 * q, 2 * r, s + 1, d)

\* static_cast<float>(n) / static_cast<float>(d) for 0 <= n <= d < 2^24,
\* d > 0: the binary32 quotient as [m, s], meaning m * 2^-s, with
\* 2^23 <= m < 2^24 or m = 0.
F32Div(n, d) ==
  IF n = 0 THEN [m |-> 0, s |-> 0]
  ELSE LET b == DivBits(n \div d, n % d, 0, d)
           up == (2 * b.r > d) \/ (2 * b.r = d /\ b.q % 2 = 1)
           m1 == IF up THEN b.q + 1 ELSE b.q
       IN IF m1 = 2 * MinSig THEN [m |-> MinSig, s |-> b.s - 1]
          ELSE [m |-> m1, s |-> b.s]

\* 1.0f - 2.0f * p for a binary32 p = m * 2^-s in [0, 1], in units of
\* 2^-24.  2.0f * p is exact (t = s - 1).  For t <= 24 the difference is a
\* multiple of 2^-t of magnitude <= 1 and is exact; for t > 24 the result
\* lies in (1/2, 1] where binary32 has spacing 2^-24 and is rounded to
\* nearest, ties to even.
F32OneMinusTwice(p) ==
  IF p.m = 0 THEN One
  ELSE LET t == p.s - 1 IN
       IF t <= 24 THEN (Pow2(t) - p.m) * Pow2(24 - t)
       ELSE LET d == Pow2(t - 24)
                qd == p.m \div d
                rd == p.m % d
                hi == One - qd
            IN IF rd = 0 THEN hi
               ELSE IF 2 * rd < d THEN hi
               ELSE IF 2 * rd > d THEN hi - 1
               ELSE IF hi % 2 = 0 THEN hi ELSE hi - 1

\* PedalOf with the range taken as the number of raw values, 65536
PedalOfRange65536(value) ==
  F32OneMinusTwice(F32Div(value - MIN_AXES_VALUE, MAX_AXES_VALUE - MIN_AXES_VALUE + 1))

\* lines 123-124 / 128-129: js.value is promoted to int and MIN_AXES_VALUE is
\* int32_t, so js.value - MIN_AXES_VALUE is the int value - MIN in 0..65535.
\* MAX_AXES_VALUE - MIN_AXES_VALUE is evaluated in uint32_t, i.e. modulo
\* 2^32, which leaves 32767 + 32768 = 65535 as it is.
AxisRange == MAX_AXES_VALUE - MIN_AXES_VALUE
PedalOf(value) == F32OneMinusTwice(F32Div(value - MIN_AXES_VALUE, AxisRange))

----------------------------------------------------------------------------
(* struct js_event and the decoder of lines 119-144 *)

JsEvent(t, n, v) == [type |-> t, number |-> n, value |-> v]

\* MaskInit without the mask: switch (js.type)
MaskInitNone(t) == t

\* js.type & ~JS_EVENT_INIT on the __u8 type: bit 7 is cleared.
MaskInit(t) == t % JS_EVENT_INIT

\* Decode with a button release resetting state to -1
DecodeResetOnRelease(js, al, ar, st) ==
  LET kind == MaskInit(js.type) IN
  IF kind = JS_EVENT_AXIS
  THEN [left  |-> IF al = js.number THEN F32OneMinusTwice(F32Div(js.value - MIN_AXES_VALUE, 65535)) ELSE st.left,
        right |-> IF ar = js.number THEN F32OneMinusTwice(F32Div(js.value - MIN_AXES_VALUE, 65535)) ELSE st.right,
        state |-> st.state]
  ELSE IF kind = JS_EVENT_BUTTON
  THEN [left  |-> st.left,
        right |-> st.right,
        state |-> IF js.value = 1 THEN js.number ELSE -1]
  ELSE st

\* The switch of lines 119-144 applied to the values [left, right, state];
\* al and ar are AXIS_LEFT_UPDOWN and AXIS_RIGHT_UPDOWN.  The label
\* JS_EVENT_INIT (128) can never equal the masked type and falls in with
\* default.
Decode(js, al, ar, st) ==
  LET kind == MaskInit(js.type) IN
  IF kind = JS_EVENT_AXIS
  THEN [left  |-> IF al = js.number THEN PedalOf(js.value) ELSE st.left,
        right |-> IF ar = js.number THEN PedalOf(js.value) ELSE st.right,
        state |-> st.state]
  ELSE IF kind = JS_EVENT_BUTTON
  THEN [left  |-> st.left,
        right |-> st.right,
        state |-> IF js.value = 1 THEN js.number ELSE st.state]
  ELSE st

----------------------------------------------------------------------------
(* od4.send: the messages handed to the OD4Session *)

PedalPositionRequest(by, position, stamp) ==
  [msg |-> "PedalPositionRequest", val |-> position, stamp |-> stamp, by |-> by]
SwitchStateRequest(by, st, stamp) ==
  [msg |-> "SwitchStateRequest", val |-> st, stamp |-> stamp, by |-> by]

----------------------------------------------------------------------------
(* State *)

VARIABLES
  mainPc,            \* position of main
  pollerPc,          \* position of the gamepadReadingThread lambda
  valuesMutex,       \* owner of valuesMutex: "free", "main" or "poller"
  left, right,       \* float left, right (units of 2^-24)
  state,             \* int32_t state
  hasError,          \* bool hasError
  errno,             \* errno of the reading thread
  gamepadDevice,     \* "unopened", "open" or "closed"
  retCode,           \* int32_t retCode
  cfg,               \* [al, ar]: AXIS_LEFT_UPDOWN, AXIS_RIGHT_UPDOWN
  od4Running,        \* od4.isRunning()
  delegateIsRunning, \* last value returned by the timeTrigger delegate
  terminated,        \* the session's termination flag (SIGINT / SIGTERM)
  ticks,             \* number of delegate invocations so far
  devQueue,          \* js_events the kernel holds for the device
  devFault,          \* "ok", "error" (reads fail) or "eof" (reads return 0)
  arrived,           \* number of js_events delivered so far
  sent,              \* every message passed to od4.send, in order
  hist               \* history variables, read by the properties only

vars == <<mainPc, pollerPc, valuesMutex, left, right, state, hasError, errno,
          gamepadDevice, retCode, cfg, od4Running, delegateIsRunning,
          terminated, ticks, devQueue, devFault, arrived, sent, hist>>

mainVars   == <<mainPc, gamepadDevice, retCode, od4Running, delegateIsRunning, ticks, sent>>
pollerVars == <<pollerPc, errno>>
values     == <<left, right, state>>
envVars    == <<terminated, devQueue, devFault, arrived>>

Values == [left |-> left, right |-> right, state |-> state]

\* errno values: 0 (never set), EAGAIN, EINTR, and EIO standing for every
\* other error of read(2)
Errnos == {"0", "EAGAIN", "EINTR", "EIO"}

\* hist fields:
\*   committed  the values as they stood when the last drain released the lock
\*   decoded    a js_event has been decoded
\*   js, before the last decoded js_event and the values before it
\*   pressed    number of the last decoded button event with value 1, or -1
\*   readError  a read(2) has failed with an errno other than EAGAIN
\*   lastRead   outcome of the read that ended the last drain
\*   tickBase   Len(sent) when the running delegate invocation started
\*   tickErr    hasError when the running delegate invocation started
\*   stopped    the delegate has returned false
\*   tickAfterStop  the delegate was invoked after it had returned false
\*   ioAfterClose   select or read ran on the device after ::close
\*   openFailed ::open returned -1
\*   spawned    the reading thread was created
HistInit ==
  [committed |-> [left |-> 0, right |-> 0, state |-> -1],
   decoded |-> FALSE, js |-> JsEvent(0, 0, 0),
   before |-> [left |-> 0, right |-> 0, state |-> -1],
   pressed |-> -1, readError |-> FALSE, lastRead |-> "none",
   tickBase |-> 0, tickErr |-> FALSE, stopped |-> FALSE,
   tickAfterStop |-> FALSE, ioAfterClose |-> FALSE,
   openFailed |-> FALSE, spawned |-> FALSE]

\* lines 38, 81-85: the locals of main before anything runs
InitWith(configs, pc) ==
  /\ mainPc = pc
  /\ pollerPc = "unborn"
  /\ valuesMutex = "free"
  /\ left = 0 /\ right = 0 /\ state = -1
  /\ hasError = FALSE
  /\ errno = "0"
  /\ gamepadDevice = "unopened"
  /\ retCode = 0
  /\ cfg \in configs
  /\ od4Running = FALSE
  /\ delegateIsRunning = TRUE
  /\ terminated = FALSE
  /\ ticks = 0
  /\ devQueue = <<>>
  /\ devFault = "ok"
  /\ arrived = 0
  /\ sent = <<>>
  /\ hist = HistInit

----------------------------------------------------------------------------
(* main, lines 37-63: arguments and ::open *)

\* lines 40-47: a required argument is missing -> usage, retCode = 1
MainArgs ==
  /\ mainPc = "args"
  /\ \E ok \in BOOLEAN :
       IF ok THEN mainPc' = "open" /\ retCode' = retCode
       ELSE mainPc' = "return" /\ retCode' = 1
  /\ UNCHANGED <<pollerVars, valuesMutex, values, hasError, gamepadDevice, cfg,
                 od4Running, delegateIsRunning, ticks, sent, envVars, hist>>

\* lines 59-63: ::open fails -> message on std::cerr, retCode is not touched
MainOpen ==
  /\ mainPc = "open"
  /\ \E ok \in BOOLEAN :
       IF ok
       THEN /\ gamepadDevice' = "open"
            /\ mainPc' = "spawn"
            /\ hist' = hist
       ELSE /\ gamepadDevice' = gamepadDevice
            /\ mainPc' = "return"
            /\ hist' = [hist EXCEPT !.openFailed = TRUE]
  /\ UNCHANGED <<pollerVars, valuesMutex, values, hasError, retCode, cfg,
                 od4Running, delegateIsRunning, ticks, sent, envVars>>

\* lines 88-152: std::thread gamepadReadingThread(...) starts the lambda
MainSpawn ==
  /\ mainPc = "spawn"
  /\ pollerPc' = "check"
  /\ mainPc' = "session"
  /\ hist' = [hist EXCEPT !.spawned = TRUE]
  /\ UNCHANGED <<errno, valuesMutex, values, hasError, gamepadDevice, retCode,
                 cfg, od4Running, delegateIsRunning, ticks, sent, envVars>>

\* lines 154-155: the OD4Session is constructed; od4.isRunning() decides
\* whether timeTrigger and the neutral sends run
MainSession ==
  /\ mainPc = "session"
  /\ \E run \in BOOLEAN :
       /\ od4Running' = run
       /\ mainPc' = IF run THEN "invoke" ELSE "shutLock"
  /\ UNCHANGED <<pollerVars, valuesMutex, values, hasError, gamepadDevice,
                 retCode, cfg, delegateIsRunning, ticks, sent, envVars, hist>>

----------------------------------------------------------------------------
(* od4.timeTrigger(FREQ, delegate), line 156: the caller is blocked while   *)
(* the session calls the delegate once per time slice, until the delegate  *)
(* returns false or the session is terminated.                             *)

\* the session calls the delegate (a do-while loop: the first call is
\* unconditional)
TriggerInvoke ==
  /\ mainPc = "invoke"
  /\ ticks' = ticks + 1
  /\ mainPc' = "tickLock"
  /\ hist' = [hist EXCEPT !.tickBase = Len(sent), !.tickErr = hasError,
                          !.tickAfterStop = @ \/ hist.stopped]
  /\ UNCHANGED <<pollerVars, valuesMutex, values, hasError, gamepadDevice,
                 retCode, cfg, od4Running, delegateIsRunning, sent, envVars>>

\* the loop condition, evaluated after the delegate has returned and the
\* rest of the time slice has been slept.  The number of invocations is
\* capped: at the cap the session sleeps until it is terminated.
TriggerCheck ==
  /\ mainPc = "trigCheck"
  /\ (delegateIsRunning /\ ~terminated) => ticks < MaxTicks
  /\ mainPc' = IF delegateIsRunning /\ ~terminated THEN "invoke" ELSE "neutralLeft"
  /\ UNCHANGED <<pollerVars, valuesMutex, values, hasError, gamepadDevice,
                 retCode, cfg, od4Running, delegateIsRunning, ticks, sent,
                 envVars, hist>>

----------------------------------------------------------------------------
(* the delegate, lines 156-175 *)

\* TickLock without waiting for valuesMutex
TickLockNoWait ==
  /\ mainPc = "tickLock"
  /\ valuesMutex' = "main"
  /\ mainPc' = "tickTest"
  /\ UNCHANGED <<pollerVars, values, hasError, gamepadDevice, retCode, cfg,
                 od4Running, delegateIsRunning, ticks, sent, envVars, hist>>

\* line 157: std::lock_guard lck(valuesMutex)
TickLock ==
  /\ mainPc = "tickLock"
  /\ valuesMutex = "free"
  /\ valuesMutex' = "main"
  /\ mainPc' = "tickTest"
  /\ UNCHANGED <<pollerVars, values, hasError, gamepadDevice, retCode, cfg,
                 od4Running, delegateIsRunning, ticks, sent, envVars, hist>>

\* TickTest with the test state != -1
TickTestAnyButton ==
  /\ mainPc = "tickTest"
  /\ IF state # -1
     THEN /\ sent' = Append(sent, PedalPositionRequest("tick", left, StampLeft))
          /\ mainPc' = "tickRight"
     ELSE /\ sent' = sent
          /\ mainPc' = "tickSwitch"
  /\ UNCHANGED <<pollerVars, valuesMutex, values, hasError, gamepadDevice,
                 retCode, cfg, od4Running, delegateIsRunning, ticks, envVars, hist>>

\* lines 160-163: if (state == 0) send left with senderStamp 0
TickTest ==
  /\ mainPc = "tickTest"
  /\ IF state = 0
     THEN /\ sent' = Append(sent, PedalPositionRequest("tick", left, StampLeft))
          /\ mainPc' = "tickRight"
     ELSE /\ sent' = sent
          /\ mainPc' = "tickSwitch"
  /\ UNCHANGED <<pollerVars, valuesMutex, values, hasError, gamepadDevice,
                 retCode, cfg, od4Running, delegateIsRunning, ticks, envVars, hist>>

\* lines 165-167: send right with senderStamp 10
TickRight ==
  /\ mainPc = "tickRight"
  /\ sent' = Append(sent, PedalPositionRequest("tick", right, StampRight))
  /\ mainPc' = "tickSwitch"
  /\ UNCHANGED <<pollerVars, valuesMutex, values, hasError, gamepadDevice,
                 retCode, cfg, od4Running, delegateIsRunning, ticks, envVars, hist>>

\* lines 170-172: send state with senderStamp 99
TickSwitch ==
  /\ mainPc = "tickSwitch"
  /\ sent' = Append(sent, SwitchStateRequest("tick", state, StampSwitch))
  /\ mainPc' = "tickReturn"
  /\ UNCHANGED <<pollerVars, valuesMutex, values, hasError, gamepadDevice,
                 retCode, cfg, od4Running, delegateIsRunning, ticks, envVars, hist>>

\* line 174-175: return !hasError; the lock_guard releases valuesMutex
TickReturn ==
  /\ mainPc = "tickReturn"
  /\ delegateIsRunning' = ~hasError
  /\ valuesMutex' = "free"
  /\ mainPc' = "trigCheck"
  /\ hist' = [hist EXCEPT !.stopped = @ \/ hasError]
  /\ UNCHANGED <<pollerVars, values, hasError, gamepadDevice, retCode, cfg,
                 od4Running, ticks, sent, envVars>>

----------------------------------------------------------------------------
(* main, lines 177-197: neutral sends, shutdown block, close, return *)

\* lines 177-179: ppr.position(0.0); od4.send(ppr, now, 0)
MainNeutralLeft ==
  /\ mainPc = "neutralLeft"
  /\ sent' = Append(sent, PedalPositionRequest("main", 0, StampLeft))
  /\ mainPc' = "neutralRight"
  /\ UNCHANGED <<pollerVars, valuesMutex, values, hasError, gamepadDevice,
                 retCode, cfg, od4Running, delegateIsRunning, ticks, envVars, hist>>

\* MainNeutralRight sending with senderStamp 0 again
MainNeutralRightStamp0 ==
  /\ mainPc = "neutralRight"
  /\ sent' = Append(sent, PedalPositionRequest("main", 0, StampLeft))
  /\ mainPc' = "neutralSwitch"
  /\ UNCHANGED <<pollerVars, valuesMutex, values, hasError, gamepadDevice,
                 retCode, cfg, od4Running, delegateIsRunning, ticks, envVars, hist>>

\* line 180: od4.send(ppr, now, 10)
MainNeutralRight ==
  /\ mainPc = "neutralRight"
  /\ sent' = Append(sent, PedalPositionRequest("main", 0, StampRight))
  /\ mainPc' = "neutralSwitch"
  /\ UNCHANGED <<pollerVars, valuesMutex, values, hasError, gamepadDevice,
                 retCode, cfg, od4Running, delegateIsRunning, ticks, envVars, hist>>

\* MainNeutralSwitch returning into the trigger loop
MainNeutralSwitchResume ==
  /\ mainPc = "neutralSwitch"
  /\ sent' = Append(sent, SwitchStateRequest("main", -1, StampSwitch))
  /\ mainPc' = IF ticks < MaxTicks THEN "invoke" ELSE "shutLock"
  /\ UNCHANGED <<pollerVars, valuesMutex, values, hasError, gamepadDevice,
                 retCode, cfg, od4Running, delegateIsRunning, ticks, envVars, hist>>

\* lines 182-184: ssr.state(-1); od4.send(ssr, now, 99)
MainNeutralSwitch ==
  /\ mainPc = "neutralSwitch"
  /\ sent' = Append(sent, SwitchStateRequest("main", -1, StampSwitch))
  /\ mainPc' = "shutLock"
  /\ UNCHANGED <<pollerVars, valuesMutex, values, hasError, gamepadDevice,
                 retCode, cfg, od4Running, delegateIsRunning, ticks, envVars, hist>>

\* line 188: std::lock_guard lck(valuesMutex)
ShutLock ==
  /\ mainPc = "shutLock"
  /\ valuesMutex = "free"
  /\ valuesMutex' = "main"
  /\ mainPc' = "shutSet"
  /\ UNCHANGED <<pollerVars, values, hasError, gamepadDevice, retCode, cfg,
                 od4Running, delegateIsRunning, ticks, sent, envVars, hist>>

\* ShutSet releasing valuesMutex before the join
ShutSetRelease ==
  /\ mainPc = "shutSet"
  /\ hasError' = TRUE
  /\ valuesMutex' = "free"
  /\ mainPc' = "join"
  /\ UNCHANGED <<pollerVars, values, gamepadDevice, retCode, cfg,
                 od4Running, delegateIsRunning, ticks, sent, envVars, hist>>

\* line 189: hasError = true
ShutSet ==
  /\ mainPc = "shutSet"
  /\ hasError' = TRUE
  /\ mainPc' = "join"
  /\ UNCHANGED <<pollerVars, valuesMutex, values, gamepadDevice, retCode, cfg,
                 od4Running, delegateIsRunning, ticks, sent, envVars, hist>>

\* ShutJoin without waiting for the lambda to return (a detached thread)
ShutJoinNoWait ==
  /\ mainPc = "join"
  /\ mainPc' = "shutUnlock"
  /\ UNCHANGED <<pollerVars, valuesMutex, values, hasError, gamepadDevice,
                 retCode, cfg, od4Running, delegateIsRunning, ticks, sent,
                 envVars, hist>>

\* line 190: gamepadReadingThread.join() returns once the lambda has returned;
\* valuesMutex is still held by the lock_guard of line 188
ShutJoin ==
  /\ mainPc = "join"
  /\ pollerPc = "done"
  /\ mainPc' = "shutUnlock"
  /\ UNCHANGED <<pollerVars, valuesMutex, values, hasError, gamepadDevice,
                 retCode, cfg, od4Running, delegateIsRunning, ticks, sent,
                 envVars, hist>>

\* line 191: end of the block, the lock_guard releases valuesMutex
ShutUnlock ==
  /\ mainPc = "shutUnlock"
  /\ valuesMutex' = "free"
  /\ mainPc' = "close"
  /\ UNCHANGED <<pollerVars, values, hasError, gamepadDevice, retCode, cfg,
                 od4Running, delegateIsRunning, ticks, sent, envVars, hist>>

\* MainClose clearing hasError on the way out
MainCloseClearsError ==
  /\ mainPc = "close"
  /\ gamepadDevice' = "closed"
  /\ hasError' = FALSE
  /\ mainPc' = "retCode"
  /\ UNCHANGED <<pollerVars, valuesMutex, values, retCode, cfg,
                 od4Running, delegateIsRunning, ticks, sent, envVars, hist>>

\* line 193: ::close(gamepadDevice)
MainClose ==
  /\ mainPc = "close"
  /\ gamepadDevice' = "closed"
  /\ mainPc' = "retCode"
  /\ UNCHANGED <<pollerVars, valuesMutex, values, hasError, retCode, cfg,
                 od4Running, delegateIsRunning, ticks, sent, envVars, hist>>

\* line 194: retCode = 0; line 197: return retCode
MainRetCode ==
  /\ mainPc = "retCode"
  /\ retCode' = 0
  /\ mainPc' = "return"
  /\ UNCHANGED <<pollerVars, valuesMutex, values, hasError, gamepadDevice, cfg,
                 od4Running, delegateIsRunning, ticks, sent, envVars, hist>>

----------------------------------------------------------------------------
(* the gamepadReadingThread lambda, lines 99-151 *)

\* line 102: while (!hasError), read without valuesMutex.  The read races
\* with the write of line 189; it yields the value before or after that
\* write, which are the two orders in which this step and ShutSet can run.
PollerCheck ==
  /\ pollerPc = "check"
  /\ pollerPc' = IF hasError THEN "done" ELSE "select"
  /\ UNCHANGED <<errno, mainVars, valuesMutex, values, hasError, cfg, envVars, hist>>

\* lines 106-113: ::select with a 20 ms timeout, then FD_ISSET.  The
\* descriptor is reported when a js_event is queued or the device is in a
\* fault state; otherwise select times out (set cleared) or fails with EINTR
\* (set left as FD_SET made it).
PollerSelect ==
  /\ pollerPc = "select"
  /\ \/ /\ devQueue # <<>> \/ devFault # "ok"
        /\ pollerPc' = "lock" /\ errno' = errno
     \/ /\ devQueue = <<>> /\ devFault = "ok"
        /\ \/ pollerPc' = "check" /\ errno' = errno
           \/ pollerPc' = "lock" /\ errno' = "EINTR"
  /\ hist' = [hist EXCEPT !.ioAfterClose = @ \/ gamepadDevice = "closed"]
  /\ UNCHANGED <<mainVars, valuesMutex, values, hasError, cfg, envVars>>

\* line 114: std::lock_guard lck(valuesMutex)
PollerLock ==
  /\ pollerPc = "lock"
  /\ valuesMutex = "free"
  /\ valuesMutex' = "poller"
  /\ pollerPc' = "read"
  /\ UNCHANGED <<errno, mainVars, values, hasError, cfg, envVars, hist>>

\* lines 117-145: one ::read of the while condition and, when it returned a
\* js_event, the loop body.  read fails with EIO on a faulty device, returns
\* the oldest queued js_event, returns 0 at end of file (errno untouched), or
\* fails with EAGAIN when nothing is queued.
PollerRead ==
  /\ pollerPc = "read"
  /\ IF devFault = "error"
     THEN /\ errno' = "EIO" /\ pollerPc' = "errno"
          /\ UNCHANGED <<values, devQueue>>
          /\ hist' = [hist EXCEPT !.readError = TRUE, !.lastRead = "error",
                        !.ioAfterClose = @ \/ gamepadDevice = "closed"]
     ELSE IF devQueue # <<>>
     THEN LET js == Head(devQueue)
              nv == Decode(js, cfg.al, cfg.ar, Values)
          IN /\ left' = nv.left /\ right' = nv.right /\ state' = nv.state
             /\ devQueue' = Tail(devQueue)
             /\ UNCHANGED pollerVars
             /\ hist' = [hist EXCEPT !.decoded = TRUE, !.js = js, !.before = Values,
                           !.pressed = IF MaskInit(js.type) = JS_EVENT_BUTTON /\ js.value = 1
                                       THEN js.number ELSE @,
                           !.lastRead = "event",
                           !.ioAfterClose = @ \/ gamepadDevice = "closed"]
     ELSE /\ errno' = IF devFault = "eof" THEN errno ELSE "EAGAIN"
          /\ pollerPc' = "errno"
          /\ UNCHANGED <<values, devQueue>>
          /\ hist' = [hist EXCEPT !.lastRead = IF devFault = "eof" THEN "eof" ELSE "EAGAIN",
                        !.ioAfterClose = @ \/ gamepadDevice = "closed"]
  /\ UNCHANGED <<mainVars, valuesMutex, hasError, cfg, terminated, devFault, arrived>>

\* PollerErrno without the assignment to hasError
PollerErrnoIgnored ==
  /\ pollerPc = "errno"
  /\ pollerPc' = "unlock"
  /\ UNCHANGED <<errno, mainVars, valuesMutex, values, hasError, cfg, envVars, hist>>

\* lines 146-149: if (errno != EAGAIN) hasError = true
PollerErrno ==
  /\ pollerPc = "errno"
  /\ hasError' = IF errno # "EAGAIN" THEN TRUE ELSE hasError
  /\ pollerPc' = "unlock"
  /\ UNCHANGED <<errno, mainVars, valuesMutex, values, cfg, envVars, hist>>

\* line 150: end of the if block, the lock_guard releases valuesMutex
PollerUnlock ==
  /\ pollerPc = "unlock"
  /\ valuesMutex' = "free"
  /\ pollerPc' = "check"
  /\ hist' = [hist EXCEPT !.committed = Values]
  /\ UNCHANGED <<errno, mainVars, values, hasError, cfg, envVars>>

----------------------------------------------------------------------------
(* Environment: the device and the signal that terminates the session *)

\* the js_events the gamepad delivers while the program runs: presses of
\* buttons 0 and 1, a release, a button press carrying the init flag, and
\* moves of the two configured axes
DevEvents ==
  { JsEvent(JS_EVENT_BUTTON, 0, 1),
    JsEvent(JS_EVENT_BUTTON, 1, 1),
    JsEvent(JS_EVENT_BUTTON, 1, 0),
    JsEvent(JS_EVENT_BUTTON + JS_EVENT_INIT, 2, 1),
    JsEvent(JS_EVENT_AXIS, 1, MIN_AXES_VALUE),
    JsEvent(JS_EVENT_AXIS, 2, MAX_AXES_VALUE) }

\* --axis-left-updown=1 --axis-right-updown=2
MainConfigs == { [al |-> 1, ar |-> 2] }

\* the js_events of the runs checked for progress: presses of button 0
PressEvents == { JsEvent(JS_EVENT_BUTTON, 0, 1) }

\* the kernel queues a js_event of the set events for the open device
DeviceEventOf(events) ==
  /\ gamepadDevice = "open"
  /\ devFault = "ok"
  /\ arrived < MaxEvents
  /\ \E js \in events : devQueue' = Append(devQueue, js)
  /\ arrived' = arrived + 1
  /\ UNCHANGED <<mainVars, pollerVars, valuesMutex, values, hasError, cfg,
                 terminated, devFault, hist>>

DeviceEvent == DeviceEventOf(DevEvents)

DevicePress == DeviceEventOf(PressEvents)

\* the device starts failing (unplugged) or reaches end of file
DeviceFault ==
  /\ gamepadDevice = "open"
  /\ devFault = "ok"
  /\ \E f \in {"error", "eof"} : devFault' = f
  /\ UNCHANGED <<mainVars, pollerVars, valuesMutex, values, hasError, cfg,
                 terminated, devQueue, arrived, hist>>

\* SIGINT / SIGTERM reaches the running session
Terminate ==
  /\ od4Running
  /\ mainPc # "return"
  /\ ~terminated
  /\ terminated' = TRUE
  /\ UNCHANGED <<mainVars, pollerVars, valuesMutex, values, hasError, cfg,
                 devQueue, devFault, arrived, hist>>

----------------------------------------------------------------------------
(* Specifications *)

MainNext ==
  \/ MainArgs \/ MainOpen \/ MainSpawn \/ MainSession
  \/ TriggerInvoke \/ TriggerCheck
  \/ TickLock \/ TickTest \/ TickRight \/ TickSwitch \/ TickReturn
  \/ MainNeutralLeft \/ MainNeutralRight \/ MainNeutralSwitch
  \/ ShutLock \/ ShutSet \/ ShutJoin \/ ShutUnlock
  \/ MainClose \/ MainRetCode

PollerNext ==
  \/ PollerCheck \/ PollerSelect \/ PollerLock
  \/ PollerRead \/ PollerErrno \/ PollerUnlock

EnvNext == DeviceEvent \/ DeviceFault \/ Terminate

Init == InitWith(MainConfigs, "args")

Next == MainNext \/ PollerNext \/ EnvNext

Spec == Init /\ [][Next]_vars

\* The same program with a gamepad that only delivers presses of button 0,
\* and with both threads scheduled fairly; the environment owes nothing.
FairNext == MainNext \/ PollerNext \/ DevicePress \/ DeviceFault \/ Terminate

FairSpec ==
  Init /\ [][FairNext]_vars /\ WF_vars(MainNext) /\ WF_vars(PollerNext)

----------------------------------------------------------------------------
(* The decoder on its own: the reading thread holds valuesMutex and is     *)
(* about to read one queued js_event of any type, number and value, with   *)
(* any axis configuration and any values left by earlier js_events.        *)

RawValues ==
  (MIN_AXES_VALUE .. MIN_AXES_VALUE + Probe) \cup (-Probe .. Probe)
    \cup (MAX_AXES_VALUE - Probe .. MAX_AXES_VALUE)

JsTypes ==
  { 0, JS_EVENT_BUTTON, JS_EVENT_AXIS, JS_EVENT_INIT,
    JS_EVENT_BUTTON + JS_EVENT_INIT, JS_EVENT_AXIS + JS_EVENT_INIT }

DecodeInputs ==
  { JsEvent(t, n, v) : t \in JsTypes, n \in 0 .. MaxNumber, v \in RawValues }

AllConfigs == [al : 0 .. MaxNumber, ar : 0 .. MaxNumber]

DecodeInit ==
  /\ mainPc = "session"
  /\ pollerPc = "read"
  /\ valuesMutex = "poller"
  /\ left \in {0, -One} /\ right \in {0, One}
  /\ state \in -1 .. MaxNumber
  /\ hasError = FALSE
  /\ errno = "0"
  /\ gamepadDevice = "open"
  /\ retCode = 0
  /\ cfg \in AllConfigs
  /\ od4Running = FALSE
  /\ delegateIsRunning = TRUE
  /\ terminated = FALSE
  /\ ticks = 0
  /\ devQueue \in { <<js>> : js \in DecodeInputs }
  /\ devFault = "ok"
  /\ arrived = 1
  /\ sent = <<>>
  /\ hist = [HistInit EXCEPT !.committed = Values, !.before = Values,
                             !.pressed = state, !.spawned = TRUE]

DecodeStep == devQueue # <<>> /\ PollerRead

DecodeSpec == DecodeInit /\ [][DecodeStep]_vars

----------------------------------------------------------------------------
(* Properties *)

NeutralBurst ==
  << PedalPositionRequest("main", 0, StampLeft),
     PedalPositionRequest("main", 0, StampRight),
     SwitchStateRequest("main", -1, StampSwitch) >>

ByMain(m) == m.by = "main"
ByTick(m) == m.by = "tick"

\* the messages sent by the delegate invocation that is running or has
\* last run
TickOut == SubSeq(sent, hist.tickBase + 1, Len(sent))

\* C1: no reachable state is a deadlock in which main waits in join() while
\* the reading thread waits for valuesMutex, so that shutdown can always
\* complete.
C1_NoJoinDeadlock ==
  ~(mainPc = "join" /\ valuesMutex = "main" /\ pollerPc = "lock")

\* C2: the device is closed only when the reading thread has terminated, and
\* the reading thread never runs select or read on the device after ::close.
C2_CloseAfterJoin ==
  /\ gamepadDevice = "closed" => pollerPc = "done"
  /\ ~hist.ioAfterClose

C2_Witness ==
  gamepadDevice = "closed" /\ hist.decoded /\ hist.lastRead = "EAGAIN"

\* C3: a read error other than EAGAIN leads to hasError being true and the
\* reading thread having left its loop; a delegate invocation that starts
\* with hasError true returns false; the delegate is never invoked after it
\* has returned false.
C3_ReadErrorPropagates ==
  /\ hist.readError ~> (hasError /\ pollerPc = "done")
  /\ [](mainPc = "trigCheck" /\ hist.tickErr => ~delegateIsRunning)
  /\ [](~hist.tickAfterStop)

C3_Witness ==
  /\ hist.readError /\ pollerPc = "done"
  /\ mainPc = "trigCheck" /\ hist.tickErr /\ ~delegateIsRunning

C5_OpenFailureExitsNonzero ==
  (hist.openFailed /\ mainPc = "return")
     => (retCode # 0 /\ ~hist.spawned /\ ticks = 0 /\ sent = <<>>)

\* C6: a tick that sees state = 0 sends exactly left at stamp 0, right at
\* stamp 10 and state 0 at stamp 99, in this order; a tick that sees any
\* other state b sends exactly state b at stamp 99.
C6_TickOutput ==
  mainPc = "tickReturn" =>
     TickOut = IF state = 0
               THEN << PedalPositionRequest("tick", left, StampLeft),
                       PedalPositionRequest("tick", right, StampRight),
                       SwitchStateRequest("tick", 0, StampSwitch) >>
               ELSE << SwitchStateRequest("tick", state, StampSwitch) >>

C6_Witness ==
  /\ mainPc = "tickReturn" /\ state = 0 /\ left = One
  /\ Len(TickOut) = 3

\* C7: while a tick reads left, right and state they are the values as the
\* last completed drain left them (the initial values when no drain has
\* completed), no drain is in progress, and what the tick has sent are those
\* values.
C7_SnapshotAtomic ==
  mainPc \in {"tickTest", "tickRight", "tickSwitch", "tickReturn"} =>
     /\ Values = hist.committed
     /\ pollerPc \notin {"read", "errno", "unlock"}
     /\ \A i \in 1 .. Len(TickOut) :
          TickOut[i].val = IF TickOut[i].stamp = StampLeft THEN hist.committed.left
                           ELSE IF TickOut[i].stamp = StampRight THEN hist.committed.right
                           ELSE hist.committed.state

C7_Witness ==
  /\ mainPc = "tickReturn" /\ Len(TickOut) = 3
  /\ hist.committed = [left |-> One, right |-> 0, state |-> 0]

\* C8: state is the number of the last decoded button event with value 1, or
\* -1 when there has been none; a button event with value 0 and an axis
\* event leave state as it was.  (A button event is a js_event whose type
\* without the init flag is JS_EVENT_BUTTON.)
C8_StickyButton ==
  /\ state = hist.pressed
  /\ (hist.decoded /\ MaskInit(hist.js.type) = JS_EVENT_BUTTON /\ hist.js.value = 0)
        => state = hist.before.state
  /\ (hist.decoded /\ MaskInit(hist.js.type) = JS_EVENT_AXIS)
        => state = hist.before.state

C8_Witness ==
  /\ hist.decoded /\ hist.js = JsEvent(JS_EVENT_BUTTON, 1, 0)
  /\ hist.before.state = 0 /\ state = 0

\* 2^24 * (1 - 2 * (value + 32768) / 65535), the pedal position of the
\* formula in units of 2^-24, as quotient q and remainder r of the division
\* by 65535 (taken in two steps of 2^12 to stay within 32 bits): the formula
\* gives q + r / 65535 units.
FormulaUnits(value) ==
  LET k  == AxisRange - 2 * (value - MIN_AXES_VALUE)
      a  == k * 4096
      b  == (a % AxisRange) * 4096
  IN [q |-> (a \div AxisRange) * 4096 + (b \div AxisRange), r |-> b % AxisRange]

\* the pedal position p (units of 2^-24) is exactly the value of the formula
ExactPedal(p, value) ==
  FormulaUnits(value).r = 0 /\ p = FormulaUnits(value).q

\* p is within 2^-24 of the value of the formula
NearPedal(p, value) ==
  LET f == FormulaUnits(value) IN
  IF f.r = 0 THEN p = f.q ELSE p \in {f.q, f.q + 1}

IsAxis(js) == MaskInit(js.type) = JS_EVENT_AXIS

\* C9 (as stated): an axis event for the left (right) axis makes left
\* (right) exactly 1 - 2 * (value + 32768) / 65535; any other axis event
\* changes neither.
C9_AxisExact ==
  (hist.decoded /\ IsAxis(hist.js)) =>
     /\ left  = IF hist.js.number = cfg.al THEN left ELSE hist.before.left
     /\ right = IF hist.js.number = cfg.ar THEN right ELSE hist.before.right
     /\ hist.js.number = cfg.al => ExactPedal(left, hist.js.value)
     /\ hist.js.number = cfg.ar => ExactPedal(right, hist.js.value)

\* C9 (amended): an axis event for the left (right) axis makes left (right)
\* the binary32 result of the formula, which is within 2^-24 of
\* 1 - 2 * (value + 32768) / 65535, lies in [-1, 1], and is exactly 1.0 at
\* -32768 and exactly -1.0 at 32767; any other axis event changes neither.
C9_AxisDecoding ==
  (hist.decoded /\ IsAxis(hist.js)) =>
     LET v == hist.js.value
         Good(p) == /\ NearPedal(p, v)
                    /\ -One <= p /\ p <= One
                    /\ v = MIN_AXES_VALUE => p = One
                    /\ v = MAX_AXES_VALUE => p = -One
     IN /\ IF hist.js.number = cfg.al THEN Good(left) ELSE left = hist.before.left
        /\ IF hist.js.number = cfg.ar THEN Good(right) ELSE right = hist.before.right

C9_Witness ==
  /\ hist.decoded /\ hist.js = JsEvent(JS_EVENT_AXIS, 1, 0)
  /\ cfg = [al |-> 1, ar |-> 2]
  /\ left = -256 /\ hist.before.left = -One
  /\ right = hist.before.right

\* C10: a run in which a read failed with an error other than EAGAIN ends
\* with a nonzero exit status.
C10_ReadErrorExitsNonzero ==
  (hist.readError /\ mainPc = "return") => retCode # 0

\* main has passed line 155
PastSession ==
  mainPc \notin {"args", "open", "spawn", "session"} /\ hist.spawned

\* main has executed line 189
StopSet == mainPc \in {"join", "shutUnlock", "close", "retCode", "return"} /\ hist.spawned

\* main is in join() and the reading thread waits for the mutex main holds
JoinDeadlock ==
  mainPc = "join" /\ valuesMutex = "main" /\ pollerPc = "lock"

\* C11: when the session is not running after it is created, no tick is
\* invoked, nothing but the neutral burst is sent, and the shutdown cannot
\* get stuck: the reading thread is joined and the device is closed.
C11_PublisherUnavailable ==
  (PastSession /\ ~od4Running) =>
     /\ ticks = 0
     /\ \A i \in 1 .. Len(sent) : ByMain(sent[i])
     /\ ~JoinDeadlock
     /\ (mainPc = "return" => gamepadDevice = "closed" /\ pollerPc = "done")

\* C12: every read and write of left, right, state and hasError is made by
\* a thread that holds valuesMutex, and the read of hasError at line 102 is
\* never concurrent with the write of line 189.
C12_LockDiscipline ==
  /\ pollerPc \in {"check", "read", "errno"} => valuesMutex = "poller"
  /\ mainPc \in {"tickTest", "tickRight", "tickSwitch", "tickReturn", "shutSet"}
        => valuesMutex = "main"
  /\ ~(pollerPc = "check" /\ mainPc = "shutSet")

\* C13: main releases valuesMutex before it blocks in join(): it never holds
\* the mutex while it waits for the reading thread.
C13_JoinWithoutLock ==
  mainPc = "join" => valuesMutex # "main"

\* C14: at the end of a drain hasError has been set exactly when the read
\* that ended the drain failed with an error other than EAGAIN.  (hasError
\* is false when a drain takes the mutex: line 189 runs under the mutex and
\* main keeps it until the thread has ended.)
C14_FatalOnlyOnReadError ==
  pollerPc = "unlock" => (hasError <=> hist.lastRead = "error")

\* C15: once main has executed line 189 the reading thread performs no
\* read on the device (nothing is taken from the queue of js_events) and
\* left, right and state do not change any more.
C15_NoDrainAfterStop ==
  [][StopSet => /\ pollerPc # "read" /\ pollerPc' # "read"
                /\ Len(devQueue') >= Len(devQueue)
                /\ <<left, right, state>>' = <<left, right, state>>]_vars

C15_Witness ==
  /\ mainPc = "shutUnlock" /\ pollerPc = "done"
  /\ hist.decoded /\ hist.lastRead = "EAGAIN" /\ devQueue # <<>>

\* C16: hasError is false initially and never goes back from true to false.
C16_ErrorFlagMonotonic ==
  ~hasError /\ [][hasError => hasError']_vars

C16_Witness ==
  hasError /\ hist.readError /\ mainPc = "return"

\* C17 (as stated): a js_event that carries the init flag, alone or together
\* with the axis or button type, changes none of left, right and state.
C17_InitIgnored ==
  (hist.decoded /\ hist.js.type >= JS_EVENT_INIT) => Values = hist.before

\* C17 (amended): a js_event whose type is the init flag alone changes
\* nothing; a js_event whose type is axis or button together with the init
\* flag is decoded as the same js_event without the flag: the button event
\* with value 1 sets state to its number, the axis event for the left
\* (right) axis sets left (right) to the pedal position of its value.
C17_InitFlagMasked ==
  (hist.decoded /\ hist.js.type >= JS_EVENT_INIT) =>
     LET js == hist.js
         b  == hist.before
     IN /\ js.type = JS_EVENT_INIT => Values = b
        /\ js.type = JS_EVENT_INIT + JS_EVENT_BUTTON =>
             /\ left = b.left /\ right = b.right
             /\ state = IF js.value = 1 THEN js.number ELSE b.state
        /\ js.type = JS_EVENT_INIT + JS_EVENT_AXIS =>
             /\ state = b.state
             /\ left = IF js.number = cfg.al THEN PedalOf(js.value) ELSE b.left
             /\ right = IF js.number = cfg.ar THEN PedalOf(js.value) ELSE b.right

C17_Witness ==
  /\ hist.decoded /\ hist.js = JsEvent(JS_EVENT_INIT + JS_EVENT_BUTTON, 2, 1)
  /\ hist.before.state = -1 /\ state = 2

\* C18: the delegate has released valuesMutex before it sends its first
\* message: main never holds the mutex while a tick sends.
C18_SendWithoutLock ==
  (mainPc \in {"tickRight", "tickSwitch"} \/ (mainPc = "tickTest" /\ state = 0))
     => valuesMutex # "main"

\* C19: with a session that was running, once main has passed the neutral
\* sends the last three messages sent are the neutral burst and everything
\* before them was sent by ticks; in particular this is so when the device
\* is closed.
C19_NeutralLast ==
  (od4Running /\ (StopSet \/ mainPc \in {"shutLock", "shutSet"})) =>
     /\ Len(sent) >= 3
     /\ SubSeq(sent, Len(sent) - 2, Len(sent)) = NeutralBurst
     /\ \A i \in 1 .. Len(sent) - 3 : ByTick(sent[i])

C19_Witness ==
  /\ gamepadDevice = "closed" /\ od4Running /\ ticks = 2
  /\ Len(sent) = 7 /\ sent[4].val = 0 /\ sent[4].by = "tick"

====
